---- MODULE Spec2Model ----
(***************************************************************************)
(* Callback registration of pipewire-rs: signal sources on a loop          *)
(* (pipewire/src/loop_.rs) and event listeners on a port proxy             *)
(* (pipewire/src/port.rs).  The native library is the environment: it      *)
(* keeps the registrations it was handed and dispatches events to the      *)
(* trampolines with the context pointer it was given.                      *)
(***************************************************************************)
EXTENDS Integers, FiniteSets, Sequences, TLC

\* ---- bounds of the model ----
\* registrations attempted in one run, signal sources and listeners together
MaxHandles == 1
\* events the native side delivers in one run
MaxEvents == 2
\* owned PortInfo values constructed in one run
MaxInfos == 2
\* largest n_params of an info record
MaxParams == 2
\* largest raw change mask of an info record
MaxMask == 7

SourceIds == 1..MaxHandles
ListenerIds == 1..MaxHandles

\* Two user closures are enough to tell which one a box holds.
Closures == {"f", "g"}

\* The thread that owns the loop, and one that does not.
LoopThread == "loop"
Threads == {"loop", "other"}

\* The null pointer.
Null == "NULL"

\* An Option<Box<dyn Fn>>: None, or Some(closure c).
None == "None"
OptClosures == {None} \cup Closures

VARIABLES
    \* ---- loop_.rs ----
    hstate,       \* per add_signal_local call: where the call / its Source handle is
    srcBox,       \* the closure box `data`: its allocation and the closure in it
    loopSources,  \* native loop: the spa_source records it dispatches to
    nAddSignal,   \* native add_signal calls made by each registration
    nDestroy,     \* native destroy_source calls made for each handle
    nBoxFree,     \* times each closure box was released
    triggers,     \* times the native loop invoked call_closure for each source
    calls,        \* user closure invocations made through each source's box
    attempt,      \* the thread each add_signal_local call ran on, and what add_signal yielded
    \* ---- port.rs ----
    lstate,       \* per add_listener_local call: builder, PortListener handle, or its drop
    cbs,          \* ListenerLocalCallbacks: in the builder, then in the `data` box
    events,       \* the pinned pw_port_events: its allocation and its two slots
    hookAlloc,    \* the pinned spa_hook
    dataAlloc,    \* the box holding cbs
    hookList,     \* native proxy: the hooks spliced into its listener list
    nAddListener, \* native add_listener calls made by each register
    nRemove,      \* hook removals made for each handle
    regThread,    \* the thread register ran on
    lastSet,      \* the closure most recently given to info() / param()
    overwrote,    \* info() / param() was given a closure after a different one
    emitted,      \* events of each kind the proxy emitted to each hook
    lcalls,       \* user closure invocations made through each listener's box
    \* ---- both ----
    nEvents,      \* native deliveries so far (bounded by MaxEvents)
    panics,       \* the fatal paths taken so far
    uaf,          \* a trampoline was run on a released context
    \* ---- the objects registrations are made against ----
    loopAlive,    \* the loop has not been dropped
    portAlive,    \* the Port proxy has not been dropped
    \* ---- the arguments of a param event ----
    paramCall,    \* the last param event: the hook, what the proxy passed, what the closure got
    \* ---- PortInfo and PortInfoRef ----
    pinfo,        \* owned PortInfo values: state, ptr field, and what was done with the record
    view,         \* the info record last read through PortInfoRef and what the accessors returned
    \* ---- Port methods ----
    lastOp,       \* the Port operation last called, its arguments, whether it panicked
    callsMade     \* the native method calls that operation made, in order

srcVars == <<hstate, srcBox, loopSources, nAddSignal, nDestroy, nBoxFree, triggers, calls,
             attempt>>
lstVars == <<lstate, cbs, events, hookAlloc, dataAlloc, hookList, nAddListener, nRemove,
             regThread, lastSet, overwrote, emitted, lcalls>>
envVars == <<nEvents, panics, uaf>>
ownerVars == <<loopAlive, portAlive>>
infoVars == <<pinfo, view>>
portVars == <<lastOp, callsMade>>
auxVars == <<ownerVars, paramCall, infoVars, portVars>>
vars == <<srcVars, lstVars, envVars, auxVars>>

NoCalls == [c \in Closures |-> 0]

\* Nothing of a drop is pending: the single thread is free to start another operation.
Quiescent ==
    /\ \A s \in SourceIds : hstate[s] # "in_drop"
    /\ \A l \in ListenerIds : lstate[l] # "removed"

\* Registrations attempted so far.
Attempts ==
    Cardinality({s \in SourceIds : hstate[s] # "none"})
        + Cardinality({l \in ListenerIds : lstate[l] # "none"})

\* The slot of the next add_signal_local call.
NextSource == CHOOSE s \in SourceIds : hstate[s] = "none" /\ \A r \in 1..(s-1) : hstate[r] # "none"

\* crate::utils::assert_main_thread: passes on the thread that owns the loop.
AssertMainThread(t) == t = LoopThread

\* ------------------------------------------------------------------------
\* Loop::add_signal_local

EntryCheckSkipped(t) == TRUE

\* loop_.rs:21, the precondition at entry.
AddSignalEntry(t) == AssertMainThread(t)

\* The native add_signal: creates a source bound to call_closure and `data`,
\* or yields NULL and creates nothing.
NativeAddSignal(s, ok) ==
    /\ nAddSignal' = [nAddSignal EXCEPT ![s] = @ + 1]
    /\ loopSources' = IF ok THEN loopSources \cup {s} ELSE loopSources

NullSourceLeaksBox(s, c) ==
    /\ srcBox' = [srcBox EXCEPT ![s] = [alloc |-> "live", closure |-> c]]
    /\ UNCHANGED nBoxFree

\* loop_.rs:52-55 with a NULL source: `data` is already a Box again when expect
\* panics, so unwinding releases it.
NullSourceUnwind(s, c) ==
    /\ srcBox' = [srcBox EXCEPT ![s] = [alloc |-> "freed", closure |-> c]]
    /\ nBoxFree' = [nBoxFree EXCEPT ![s] = @ + 1]

AddSignalLocal(t, c, ok) ==
    /\ Quiescent
    /\ Attempts < MaxHandles
    /\ LET s == NextSource IN
       /\ attempt' = [attempt EXCEPT ![s] = [thread |-> t, ok |-> ok]]
       /\ IF ~AddSignalEntry(t)
          THEN /\ hstate' = [hstate EXCEPT ![s] = "failed_thread"]
               /\ panics' = panics \cup {"not_main_thread"}
               /\ UNCHANGED <<srcBox, loopSources, nAddSignal, nDestroy, nBoxFree,
                              triggers, calls, nEvents, uaf, lstVars>>
          ELSE /\ NativeAddSignal(s, ok)
               /\ IF ok
                  THEN /\ srcBox' = [srcBox EXCEPT ![s] = [alloc |-> "live", closure |-> c]]
                       /\ hstate' = [hstate EXCEPT ![s] = "live"]
                       /\ UNCHANGED <<nBoxFree, panics>>
                  ELSE /\ NullSourceUnwind(s, c)
                       /\ hstate' = [hstate EXCEPT ![s] = "failed_null"]
                       /\ panics' = panics \cup {"source_is_null"}
               /\ UNCHANGED <<nDestroy, triggers, calls, nEvents, uaf, lstVars>>

\* ------------------------------------------------------------------------
\* call_closure, run by the native loop when the signal of a source fires

CallClosureTwice(s) ==
    calls' = [calls EXCEPT ![s][srcBox[s].closure] = @ + 2]

\* loop_.rs:27-28: the closure behind `data` is called once.
CallClosure(s) ==
    calls' = [calls EXCEPT ![s][srcBox[s].closure] = @ + 1]

SignalFires(s) ==
    /\ Quiescent
    /\ s \in loopSources
    /\ nEvents < MaxEvents
    /\ nEvents' = nEvents + 1
    /\ triggers' = [triggers EXCEPT ![s] = @ + 1]
    /\ IF srcBox[s].alloc = "live"
       THEN CallClosure(s) /\ UNCHANGED uaf
       ELSE \* the context is dangling: whatever is read there may or may not run
            /\ uaf' = TRUE
            /\ \/ UNCHANGED calls
               \/ \E c \in Closures : calls' = [calls EXCEPT ![s][c] = @ + 1]
    /\ UNCHANGED <<hstate, srcBox, loopSources, nAddSignal, nDestroy, nBoxFree, attempt,
                   panics, lstVars>>

\* ------------------------------------------------------------------------
\* Drop for Source

DestroySourceSkipped(s) == UNCHANGED <<nDestroy, loopSources>>

DestroySourceTwice(s) ==
    /\ nDestroy' = [nDestroy EXCEPT ![s] = @ + 2]
    /\ loopSources' = loopSources \ {s}

\* Loop::destroy_source: the native loop forgets the source.
DestroySource(s) ==
    /\ nDestroy' = [nDestroy EXCEPT ![s] = @ + 1]
    /\ loopSources' = loopSources \ {s}

SourceDropFreesFirst(s) ==
    /\ Quiescent
    /\ hstate[s] = "live"
    /\ srcBox' = [srcBox EXCEPT ![s].alloc = "freed"]
    /\ nBoxFree' = [nBoxFree EXCEPT ![s] = @ + 1]
    /\ hstate' = [hstate EXCEPT ![s] = "in_drop"]
    /\ UNCHANGED <<loopSources, nDestroy, nAddSignal, triggers, calls, attempt, envVars,
                   lstVars>>

\* Source::drop, the body.
SourceDrop(s) ==
    /\ Quiescent
    /\ hstate[s] = "live"
    /\ DestroySource(s)
    /\ hstate' = [hstate EXCEPT ![s] = "in_drop"]
    /\ UNCHANGED <<srcBox, nAddSignal, nBoxFree, triggers, calls, attempt, envVars, lstVars>>

\* The fields are dropped after the body: `data` releases the closure box.
SourceDropFields(s) ==
    /\ hstate[s] = "in_drop"
    /\ srcBox' = [srcBox EXCEPT ![s].alloc = "freed"]
    /\ nBoxFree' = [nBoxFree EXCEPT ![s] = @ + 1]
    /\ hstate' = [hstate EXCEPT ![s] = "dropped"]
    /\ UNCHANGED <<loopSources, nAddSignal, nDestroy, triggers, calls, attempt, envVars,
                   lstVars>>

\* ------------------------------------------------------------------------
\* Port::add_listener_local and the builder

\* The slot of the next add_listener_local call.
NextListener == CHOOSE l \in ListenerIds : lstate[l] = "none" /\ \A r \in 1..(l-1) : lstate[r] # "none"

NoCbs == [info |-> None, param |-> None]

\* port.rs:25-30: a builder with ListenerLocalCallbacks::default().
AddListenerLocal ==
    /\ Quiescent
    /\ Attempts < MaxHandles
    /\ LET l == NextListener IN
       /\ lstate' = [lstate EXCEPT ![l] = "building"]
       /\ cbs' = [cbs EXCEPT ![l] = NoCbs]
    /\ UNCHANGED <<events, hookAlloc, dataAlloc, hookList, nAddListener, nRemove, regThread,
                   lastSet, overwrote, emitted, lcalls, srcVars, envVars>>

SetInfoKeepsFirst(cb, c) == IF cb.info = None THEN [cb EXCEPT !.info = c] ELSE cb

\* port.rs:249: self.cbs.info = Some(Box::new(info)).
SetInfo(cb, c) == [cb EXCEPT !.info = c]

\* port.rs:258: self.cbs.param = Some(Box::new(param)).
SetParam(cb, c) == [cb EXCEPT !.param = c]

\* PortListenerLocalBuilder::info
Info(l, c) ==
    /\ Quiescent
    /\ lstate[l] = "building"
    /\ cbs' = [cbs EXCEPT ![l] = SetInfo(@, c)]
    /\ lastSet' = [lastSet EXCEPT ![l].info = c]
    /\ overwrote' = [overwrote EXCEPT ![l].info = @ \/ lastSet[l].info \notin {None, c}]
    /\ UNCHANGED <<lstate, events, hookAlloc, dataAlloc, hookList, nAddListener, nRemove,
                   regThread, emitted, lcalls, srcVars, envVars>>

\* PortListenerLocalBuilder::param
Param(l, c) ==
    /\ Quiescent
    /\ lstate[l] = "building"
    /\ cbs' = [cbs EXCEPT ![l] = SetParam(@, c)]
    /\ lastSet' = [lastSet EXCEPT ![l].param = c]
    /\ overwrote' = [overwrote EXCEPT ![l].param = @ \/ lastSet[l].param \notin {None, c}]
    /\ UNCHANGED <<lstate, events, hookAlloc, dataAlloc, hookList, nAddListener, nRemove,
                   regThread, emitted, lcalls, srcVars, envVars>>

\* ------------------------------------------------------------------------
\* PortListenerLocalBuilder::register

EventsTableAllSet(cb) == [info |-> TRUE, param |-> TRUE]

EventsTableSwapped(cb) == [info |-> cb.param # None, param |-> cb.info # None]

\* port.rs:294-306: a zeroed table, then one slot per configured closure.
EventsTable(cb) == [info |-> cb.info # None, param |-> cb.param # None]

\* The native add_listener: the hook is spliced into the proxy's listener list,
\* with the table and the context pointer it was given.
NativeAddListener(l) ==
    /\ nAddListener' = [nAddListener EXCEPT ![l] = @ + 1]
    /\ hookList' = hookList \cup {l}

Register(l, t) ==
    /\ Quiescent
    /\ lstate[l] = "building"
    /\ events' = [events EXCEPT ![l] = [alloc |-> "live", slots |-> EventsTable(cbs[l])]]
    /\ dataAlloc' = [dataAlloc EXCEPT ![l] = "live"]
    /\ hookAlloc' = [hookAlloc EXCEPT ![l] = "live"]
    /\ NativeAddListener(l)
    /\ regThread' = [regThread EXCEPT ![l] = t]
    /\ lstate' = [lstate EXCEPT ![l] = "registered"]
    /\ UNCHANGED <<cbs, nRemove, lastSet, overwrote, emitted, lcalls, srcVars, envVars>>

\* ------------------------------------------------------------------------
\* port_events_info and port_events_param, run by the proxy when it emits

\* Everything the proxy and the trampoline read is still allocated.
ListenerIntact(l) ==
    /\ events[l].alloc = "live"
    /\ hookAlloc[l] = "live"
    /\ dataAlloc[l] = "live"

\* port.rs:268-271: expect("info is NULL"), then callbacks.info.as_ref().unwrap()(info).
PortEventsInfo(l, info) ==
    IF info = "NULL"
    THEN panics' = panics \cup {"info_is_null"} /\ UNCHANGED lcalls
    ELSE IF cbs[l].info = None
         THEN panics' = panics \cup {"unwrap_none"} /\ UNCHANGED lcalls
         ELSE lcalls' = [lcalls EXCEPT ![l].info[cbs[l].info] = @ + 1] /\ UNCHANGED panics

\* port.rs:282-291: callbacks.param.as_ref().unwrap()(seq, id, index, next, param).
PortEventsParam(l) ==
    IF cbs[l].param = None
    THEN panics' = panics \cup {"unwrap_none"} /\ UNCHANGED lcalls
    ELSE lcalls' = [lcalls EXCEPT ![l].param[cbs[l].param] = @ + 1] /\ UNCHANGED panics

\* What running on released memory may do: call any closure of the kind, or none.
Dangling(l, kind) ==
    /\ uaf' = TRUE
    /\ \/ UNCHANGED lcalls
       \/ \E c \in Closures : lcalls' = [lcalls EXCEPT ![l][kind][c] = @ + 1]
    /\ UNCHANGED panics

\* The proxy calls the info slot: with the record of an info event, or (against
\* its contract) with NULL, which is no event and is not counted as one.
EmitInfo(l, info) ==
    /\ Quiescent
    /\ l \in hookList
    /\ nEvents < MaxEvents
    /\ nEvents' = nEvents + 1
    /\ emitted' = IF info = "NULL" THEN emitted ELSE [emitted EXCEPT ![l].info = @ + 1]
    /\ IF ~ListenerIntact(l)
       THEN Dangling(l, "info")
       ELSE IF events[l].slots.info
            THEN PortEventsInfo(l, info) /\ UNCHANGED uaf
            ELSE UNCHANGED <<lcalls, panics, uaf>>
    /\ UNCHANGED <<lstate, cbs, events, hookAlloc, dataAlloc, hookList, nAddListener, nRemove,
                   regThread, lastSet, overwrote, srcVars>>

\* The proxy emits a param event.
EmitParam(l) ==
    /\ Quiescent
    /\ l \in hookList
    /\ nEvents < MaxEvents
    /\ nEvents' = nEvents + 1
    /\ emitted' = [emitted EXCEPT ![l].param = @ + 1]
    /\ IF ~ListenerIntact(l)
       THEN Dangling(l, "param")
       ELSE IF events[l].slots.param
            THEN PortEventsParam(l) /\ UNCHANGED uaf
            ELSE UNCHANGED <<lcalls, panics, uaf>>
    /\ UNCHANGED <<lstate, cbs, events, hookAlloc, dataAlloc, hookList, nAddListener, nRemove,
                   regThread, lastSet, overwrote, srcVars>>

\* ------------------------------------------------------------------------
\* Drop for PortListener

HookRemoveSkipped(l) == UNCHANGED <<nRemove, hookList>>

\* spa::utils::hook::remove: the hook leaves the proxy's listener list.
HookRemove(l) ==
    /\ nRemove' = [nRemove EXCEPT ![l] = @ + 1]
    /\ hookList' = hookList \ {l}

PortListenerDropNoRemove(l) ==
    /\ Quiescent
    /\ lstate[l] = "registered"
    /\ lstate' = [lstate EXCEPT ![l] = "removed"]
    /\ UNCHANGED <<cbs, events, hookAlloc, dataAlloc, hookList, nAddListener, nRemove,
                   regThread, lastSet, overwrote, emitted, lcalls, srcVars, envVars>>

\* PortListener::drop, the body.
PortListenerDrop(l) ==
    /\ Quiescent
    /\ lstate[l] = "registered"
    /\ HookRemove(l)
    /\ lstate' = [lstate EXCEPT ![l] = "removed"]
    /\ UNCHANGED <<cbs, events, hookAlloc, dataAlloc, nAddListener, regThread, lastSet, overwrote,
                   emitted, lcalls, srcVars, envVars>>

\* The fields are dropped after the body: the dispatch table, the hook node and
\* the closures box are released.
PortListenerDropFields(l) ==
    /\ lstate[l] = "removed"
    /\ events' = [events EXCEPT ![l].alloc = "freed"]
    /\ hookAlloc' = [hookAlloc EXCEPT ![l] = "freed"]
    /\ dataAlloc' = [dataAlloc EXCEPT ![l] = "freed"]
    /\ lstate' = [lstate EXCEPT ![l] = "dropped"]
    /\ UNCHANGED <<cbs, hookList, nAddListener, nRemove, regThread, lastSet, overwrote,
                   emitted, lcalls, srcVars, envVars>>

\* ------------------------------------------------------------------------
\* port_events_param, with the arguments of the event

\* What the native proxy passes to the param slot: seq (i32), id (u32, as two
\* 16-bit halves <<high, low>>), index, next (u32) and the payload pointer.
ParamEvents ==
    {<<-1, <<0, 1>>, 0, 1, Null>>, <<-1, <<0, 2>>, 0, 1, "pod">>,
     <<7, <<0, 2>>, 1, 2, Null>>, <<7, <<0, 1>>, 1, 2, "pod">>}

NoParamCall == [l |-> 0, raw |-> <<>>, got |-> <<>>]

\* spa::param::ParamType::from_raw and as_raw: the typed kind of a raw id.
ParamTypeFromRaw(raw) == [ParamType |-> raw]
AsRaw(kind) == kind.ParamType

PodOptionAlwaysSome(p) == <<"Some", p>>

\* port.rs:285-289: a non-null payload is Some(Pod::from_raw(param)), a null one None.
PodOption(p) == IF p # Null THEN <<"Some", p>> ELSE <<"None">>

\* port.rs:284-291: what the closure is called with.
ParamClosureArgs(a) == <<a[1], ParamTypeFromRaw(a[2]), a[3], a[4], PodOption(a[5])>>

\* The proxy emits a param event with arguments a.
EmitParamWith(l, a) ==
    /\ EmitParam(l)
    /\ paramCall' = [l |-> l, raw |-> a,
                     got |-> IF lcalls' # lcalls THEN ParamClosureArgs(a) ELSE <<>>]

\* ------------------------------------------------------------------------
\* PortInfo: an owned pw_port_info record

InfoVals == 1..MaxInfos
InfoPtrs == {"p", "q", "r"}

NoPortInfo == [st |-> "none", ptr |-> Null, from |-> Null, out |-> Null, freed |-> <<>>]

NextInfo == CHOOSE v \in InfoVals : pinfo[v].st = "none" /\ \A r \in 1..(v-1) : pinfo[r].st # "none"

\* PortInfo::new(ptr)
PortInfoNew(ptr) ==
    /\ \E v \in InfoVals : pinfo[v].st = "none"
    /\ pinfo' = [pinfo EXCEPT ![NextInfo] = [st |-> "owned", ptr |-> ptr, from |-> ptr,
                                             out |-> Null, freed |-> <<>>]]
    /\ UNCHANGED <<view, portVars, ownerVars, paramCall, srcVars, lstVars, envVars>>

\* PortInfo::from_raw(raw): NonNull::new(raw).expect("Provided pointer is null")
PortInfoFromRaw(raw) ==
    /\ \E v \in InfoVals : pinfo[v].st = "none"
    /\ IF raw # Null
         THEN /\ pinfo' = [pinfo EXCEPT ![NextInfo] = [st |-> "owned", ptr |-> raw, from |-> raw,
                                                       out |-> Null, freed |-> <<>>]]
              /\ UNCHANGED panics
         ELSE /\ pinfo' = [pinfo EXCEPT ![NextInfo].st = "panicked"]
              /\ panics' = panics \cup {"null_info"}
    /\ UNCHANGED <<view, portVars, ownerVars, paramCall, srcVars, lstVars, nEvents, uaf>>

\* pw_sys::pw_port_info_free(ptr), on behalf of value v
PwPortInfoFree(v, ptr) == [pinfo[v] EXCEPT !.freed = Append(@, ptr)]

IntoRawAndFree(v) ==
    /\ pinfo[v].st = "owned"
    /\ pinfo' = [pinfo EXCEPT ![v] = [PwPortInfoFree(v, pinfo[v].ptr) EXCEPT
                                          !.st = "raw", !.out = pinfo[v].ptr]]
    /\ UNCHANGED <<view, portVars, ownerVars, paramCall, srcVars, lstVars, envVars>>

\* PortInfo::into_raw(self): ManuallyDrop::new(self).ptr.as_ptr(); Drop does not run.
PortInfoIntoRaw(v) ==
    /\ pinfo[v].st = "owned"
    /\ pinfo' = [pinfo EXCEPT ![v].st = "raw", ![v].out = pinfo[v].ptr]
    /\ UNCHANGED <<view, portVars, ownerVars, paramCall, srcVars, lstVars, envVars>>

\* Drop for PortInfo
PortInfoDrop(v) ==
    /\ pinfo[v].st = "owned"
    /\ pinfo' = [pinfo EXCEPT ![v] = [PwPortInfoFree(v, pinfo[v].ptr) EXCEPT !.st = "dropped"]]
    /\ UNCHANGED <<view, portVars, ownerVars, paramCall, srcVars, lstVars, envVars>>

\* ------------------------------------------------------------------------
\* PortInfoRef: the accessors of a pw_port_info record

PW_PORT_CHANGE_MASK_PROPS == 1
PW_PORT_CHANGE_MASK_PARAMS == 2
NamedFlags == {PW_PORT_CHANGE_MASK_PROPS, PW_PORT_CHANGE_MASK_PARAMS}

\* The pw_port_info records the native side can hand out.
InfoRecords ==
    [id : {0, 7}, props : {Null, "dict"}, params : {Null, "array"},
     n_params : 0..MaxParams, change_mask : 0..MaxMask]

RECURSIVE BitAnd(_, _)
BitAnd(a, b) ==
    IF a = 0 \/ b = 0 THEN 0
    ELSE (a % 2) * (b % 2) + 2 * BitAnd(a \div 2, b \div 2)

Id(r) == r.id

FromBitsTruncateProps(bits) == [bits |-> BitAnd(bits, PW_PORT_CHANGE_MASK_PROPS)]

\* bitflags from_bits_retain: every bit of the raw value is kept.
FromBitsRetain(bits) == [bits |-> bits]

ChangeMask(r) == FromBitsRetain(r.change_mask)

\* bitflags contains and is_empty
Contains(mask, flag) == BitAnd(mask.bits, flag) = flag
IsEmpty(mask) == mask.bits = 0

\* NonNull::new(props_ptr).map(|ptr| ptr.as_ref())
Props(r) == IF r.props # Null THEN <<"Some", r.props>> ELSE <<"None">>

ParamsUnchecked(r) == [ptr |-> r.params, len |-> r.n_params]

\* &[] when the pointer is null, else from_raw_parts(params, n_params)
Params(r) ==
    IF r.params = Null THEN [ptr |-> "dangling", len |-> 0]
    ELSE [ptr |-> r.params, len |-> r.n_params]

NoView == [n |-> 0, rec |-> <<>>, id |-> 0, props |-> <<>>, params |-> <<>>, change_mask |-> <<>>]

\* A reader calls the accessors of record r.
ViewInfo(r) ==
    /\ view' = [n |-> 1, rec |-> r, id |-> Id(r), props |-> Props(r), params |-> Params(r),
                change_mask |-> ChangeMask(r)]
    /\ UNCHANGED <<pinfo, portVars, ownerVars, paramCall, srcVars, lstVars, envVars>>

\* ------------------------------------------------------------------------
\* Port::subscribe_params and Port::enum_params

\* u32 and usize values are pairs <<high, low>> of base-Half digits, low < Half;
\* a u32 has high < Half as well.
Half == 2^16

\* crate::constants::ID_ANY, 0xffffffff
ID_ANY == <<Half - 1, Half - 1>>

RawIds == {<<0, 1>>, <<0, 2>>}
IdOptions == {<<"None">>} \cup {<<"Some", ParamTypeFromRaw(r)>> : r \in RawIds}

\* The id slices a caller can pass: pointer and length (usize).
IdLists ==
    [ptr : {"ids"},
     len : {<<0, 0>>, <<0, 2>>, <<Half - 1, Half - 1>>, <<Half, 0>>, <<Half + 1, 2>>}]

NoOp == [op |-> "none", args |-> <<>>, failed |-> FALSE]

\* One dispatch of spa_interface_call_method!(proxy, table, method, args...).
NativeCall(table, method, args) == [table |-> table, method |-> method, args |-> args]

TryIntoU32Wrapping(n) == <<"Ok", <<n[1] % Half, n[2]>>>>

\* usize -> u32 try_into(): Err when the value exceeds u32::MAX
TryIntoU32(n) == IF n[1] < Half THEN <<"Ok", n>> ELSE <<"Err">>

\* Port::subscribe_params(ids): the arguments are evaluated before the call,
\* and unwrap() of the failed conversion panics.
SubscribeParams(ids) ==
    LET count == TryIntoU32(ids.len) IN
    /\ IF count[1] = "Ok"
         THEN /\ callsMade' = <<NativeCall("pw_port_methods", "subscribe_params",
                                           <<ids.ptr, count[2]>>)>>
              /\ lastOp' = [op |-> "subscribe_params", args |-> <<ids>>, failed |-> FALSE]
              /\ UNCHANGED panics
         ELSE /\ callsMade' = <<>>
              /\ lastOp' = [op |-> "subscribe_params", args |-> <<ids>>, failed |-> TRUE]
              /\ panics' = panics \cup {"try_into"}
    /\ UNCHANGED <<infoVars, ownerVars, paramCall, srcVars, lstVars, nEvents, uaf>>

EnumParamsIdZero(id) == IF id[1] = "Some" THEN AsRaw(id[2]) ELSE <<0, 0>>

\* id.map(|id| id.as_raw()).unwrap_or(ID_ANY)
EnumParamsId(id) == IF id[1] = "Some" THEN AsRaw(id[2]) ELSE ID_ANY

\* Port::enum_params(seq, id, start, num)
EnumParams(seq, id, start, num) ==
    /\ callsMade' = <<NativeCall("pw_node_methods", "enum_params",
                                 <<seq, EnumParamsId(id), start, num, Null>>)>>
    /\ lastOp' = [op |-> "enum_params", args |-> <<seq, id, start, num>>, failed |-> FALSE]
    /\ UNCHANGED <<infoVars, ownerVars, paramCall, srcVars, lstVars, envVars>>

\* PortListenerLocalBuilder::register, with the dispatch of add_listener
RegisterCall(l) ==
    /\ Register(l, LoopThread)
    /\ callsMade' = <<NativeCall("pw_port_methods", "add_listener", <<l>>)>>
    /\ lastOp' = [op |-> "register", args |-> <<l>>, failed |-> FALSE]
    /\ UNCHANGED <<infoVars, ownerVars, paramCall>>

\* ------------------------------------------------------------------------

Init ==
    /\ hstate = [s \in SourceIds |-> "none"]
    /\ srcBox = [s \in SourceIds |-> [alloc |-> "none", closure |-> None]]
    /\ loopSources = {}
    /\ nAddSignal = [s \in SourceIds |-> 0]
    /\ nDestroy = [s \in SourceIds |-> 0]
    /\ nBoxFree = [s \in SourceIds |-> 0]
    /\ triggers = [s \in SourceIds |-> 0]
    /\ calls = [s \in SourceIds |-> NoCalls]
    /\ attempt = [s \in SourceIds |-> [thread |-> "unset", ok |-> FALSE]]
    /\ lstate = [l \in ListenerIds |-> "none"]
    /\ cbs = [l \in ListenerIds |-> NoCbs]
    /\ events = [l \in ListenerIds |-> [alloc |-> "none", slots |-> [info |-> FALSE, param |-> FALSE]]]
    /\ hookAlloc = [l \in ListenerIds |-> "none"]
    /\ dataAlloc = [l \in ListenerIds |-> "none"]
    /\ hookList = {}
    /\ nAddListener = [l \in ListenerIds |-> 0]
    /\ nRemove = [l \in ListenerIds |-> 0]
    /\ regThread = [l \in ListenerIds |-> "unset"]
    /\ lastSet = [l \in ListenerIds |-> NoCbs]
    /\ overwrote = [l \in ListenerIds |-> [info |-> FALSE, param |-> FALSE]]
    /\ emitted = [l \in ListenerIds |-> [info |-> 0, param |-> 0]]
    /\ lcalls = [l \in ListenerIds |-> [info |-> NoCalls, param |-> NoCalls]]
    /\ nEvents = 0
    /\ panics = {}
    /\ uaf = FALSE
    /\ loopAlive = TRUE
    /\ portAlive = TRUE
    /\ paramCall = NoParamCall
    /\ pinfo = [v \in InfoVals |-> NoPortInfo]
    /\ view = NoView
    /\ lastOp = NoOp
    /\ callsMade = <<>>

Next ==
    \/ \E t \in Threads, c \in Closures, ok \in BOOLEAN : AddSignalLocal(t, c, ok) /\ UNCHANGED auxVars
    \/ \E s \in SourceIds : SignalFires(s) /\ UNCHANGED auxVars
    \/ \E s \in SourceIds : SourceDrop(s) /\ UNCHANGED auxVars
    \/ \E s \in SourceIds : SourceDropFields(s) /\ UNCHANGED auxVars
    \/ AddListenerLocal /\ UNCHANGED auxVars
    \/ \E l \in ListenerIds, c \in Closures : Info(l, c) /\ UNCHANGED auxVars
    \/ \E l \in ListenerIds, c \in Closures : Param(l, c) /\ UNCHANGED auxVars
    \/ \E l \in ListenerIds, t \in Threads : Register(l, t) /\ UNCHANGED auxVars
    \/ \E l \in ListenerIds, info \in {"NULL", "record"} : EmitInfo(l, info) /\ UNCHANGED auxVars
    \/ \E l \in ListenerIds : EmitParam(l) /\ UNCHANGED auxVars
    \/ \E l \in ListenerIds : PortListenerDrop(l) /\ UNCHANGED auxVars
    \/ \E l \in ListenerIds : PortListenerDropFields(l) /\ UNCHANGED auxVars

Spec == Init /\ [][Next]_vars

\* ------------------------------------------------------------------------
\* The lifetimes of the loop and of the Port against those of the handles

LoopNeverBorrowed == FALSE

\* loop_.rs:94: a Source<'a, F, L> holds `loop_: &'a L` until it is dropped.
LoopBorrowed == \E s \in SourceIds : hstate[s] \in {"live", "in_drop"}

\* port.rs:108: a PortListenerLocalBuilder<'a> holds `port: &'a Port`; register
\* consumes the builder, and the PortListener it returns has no lifetime
\* parameter and holds no reference to the Port.
PortBorrowed == \E l \in ListenerIds : lstate[l] = "building"

\* The loop is dropped: the borrow checker allows it only when nothing borrows it.
LoopDrop ==
    /\ Quiescent
    /\ loopAlive
    /\ ~LoopBorrowed
    /\ loopAlive' = FALSE
    /\ UNCHANGED <<portAlive, paramCall, infoVars, portVars, srcVars, lstVars, envVars>>

\* The Port is dropped: the borrow checker allows it only when nothing borrows it.
PortDrop ==
    /\ Quiescent
    /\ portAlive
    /\ ~PortBorrowed
    /\ portAlive' = FALSE
    /\ UNCHANGED <<loopAlive, paramCall, infoVars, portVars, srcVars, lstVars, envVars>>

\* Registrations, builder calls and drops, with the loop and the Port mortal.
\* add_signal_local takes &self of the loop, add_listener_local &self of the Port.
NextLife ==
    \/ \E t \in Threads, c \in Closures, ok \in BOOLEAN :
          loopAlive /\ AddSignalLocal(t, c, ok) /\ UNCHANGED auxVars
    \/ \E s \in SourceIds : SourceDrop(s) /\ UNCHANGED auxVars
    \/ \E s \in SourceIds : SourceDropFields(s) /\ UNCHANGED auxVars
    \/ portAlive /\ AddListenerLocal /\ UNCHANGED auxVars
    \/ \E l \in ListenerIds, c \in Closures : Info(l, c) /\ UNCHANGED auxVars
    \/ \E l \in ListenerIds, c \in Closures : Param(l, c) /\ UNCHANGED auxVars
    \/ \E l \in ListenerIds, t \in Threads : Register(l, t) /\ UNCHANGED auxVars
    \/ \E l \in ListenerIds : PortListenerDrop(l) /\ UNCHANGED auxVars
    \/ \E l \in ListenerIds : PortListenerDropFields(l) /\ UNCHANGED auxVars
    \/ LoopDrop
    \/ PortDrop

SpecLife == Init /\ [][NextLife]_vars

\* Listeners receiving param events with their arguments.
NextParam ==
    \/ AddListenerLocal /\ UNCHANGED auxVars
    \/ \E l \in ListenerIds, c \in Closures : Info(l, c) /\ UNCHANGED auxVars
    \/ \E l \in ListenerIds, c \in Closures : Param(l, c) /\ UNCHANGED auxVars
    \/ \E l \in ListenerIds : Register(l, LoopThread) /\ UNCHANGED auxVars
    \/ \E l \in ListenerIds, a \in ParamEvents : EmitParamWith(l, a) /\ UNCHANGED <<ownerVars, infoVars, portVars>>
    \/ \E l \in ListenerIds : PortListenerDrop(l) /\ UNCHANGED auxVars
    \/ \E l \in ListenerIds : PortListenerDropFields(l) /\ UNCHANGED auxVars

SpecParam == Init /\ [][NextParam]_vars

\* Owned info values.
NextPortInfo ==
    \/ \E ptr \in InfoPtrs : PortInfoNew(ptr)
    \/ \E raw \in InfoPtrs \cup {Null} : PortInfoFromRaw(raw)
    \/ \E v \in InfoVals : PortInfoIntoRaw(v)
    \/ \E v \in InfoVals : PortInfoDrop(v)

SpecPortInfo == Init /\ [][NextPortInfo]_vars

\* Readers of info records.
NextPortInfoRef == \E r \in InfoRecords : ViewInfo(r)

SpecPortInfoRef == Init /\ [][NextPortInfoRef]_vars

\* The methods of Port.
NextPort ==
    \/ AddListenerLocal /\ UNCHANGED auxVars
    \/ \E l \in ListenerIds, c \in Closures : Info(l, c) /\ UNCHANGED auxVars
    \/ \E l \in ListenerIds, c \in Closures : Param(l, c) /\ UNCHANGED auxVars
    \/ \E l \in ListenerIds : RegisterCall(l)
    \/ \E ids \in IdLists : SubscribeParams(ids)
    \/ \E seq \in {-1, 7}, id \in IdOptions, start \in {0, 1}, num \in {1, 2} :
          EnumParams(seq, id, start, num)

SpecPort == Init /\ [][NextPort]_vars

\* ------------------------------------------------------------------------
\* Properties

\* A Source handle was returned; a PortListener handle was returned.
HasSource(s) == hstate[s] \in {"live", "in_drop", "dropped"}
HasListener(l) == lstate[l] \in {"registered", "removed", "dropped"}

Kinds == {"info", "param"}

\* C1: whatever the native side can still dispatch to (a source of the loop, a
\* hook of the proxy's list) has its closure allocation live, and no trampoline
\* ever ran on a released context.
C1_DispatchTargetsLive ==
    /\ \A s \in loopSources : srcBox[s].alloc = "live"
    /\ \A l \in hookList : dataAlloc[l] = "live"
    /\ ~uaf

\* A source was registered, triggered, and its handle dropped.
C1_Witness ==
    \E s \in SourceIds : hstate[s] = "dropped" /\ triggers[s] >= 1 /\ srcBox[s].alloc = "freed"

\* C2: a Source drop calls destroy_source (once, for its own source) before the
\* closure box is released: the box is never released with destroy_source not
\* yet called, and a finished drop has done both.
C2_DestroyThenFree ==
    \A s \in SourceIds :
        /\ (HasSource(s) /\ srcBox[s].alloc = "freed") => nDestroy[s] = 1
        /\ hstate[s] = "in_drop" =>
              nDestroy[s] = 1 /\ s \notin loopSources /\ srcBox[s].alloc = "live"
        /\ hstate[s] = "dropped" =>
              nDestroy[s] = 1 /\ s \notin loopSources /\ srcBox[s].alloc = "freed"

\* The drop is between its destroy_source call and the release of the box.
C2_Witness ==
    \E s \in SourceIds : hstate[s] = "in_drop" /\ nDestroy[s] = 1 /\ srcBox[s].alloc = "live"

\* C3: a PortListener drop removes the hook from the native list first; the
\* dispatch table, the hook node and the closures box are released only after,
\* and none of them while the hook is in the list.
C3_RemoveThenRelease ==
    \A l \in ListenerIds :
        /\ l \in hookList => ListenerIntact(l)
        /\ lstate[l] = "removed" => nRemove[l] = 1 /\ l \notin hookList /\ ListenerIntact(l)
        /\ lstate[l] = "dropped" =>
              /\ nRemove[l] = 1 /\ l \notin hookList
              /\ events[l].alloc = "freed" /\ hookAlloc[l] = "freed" /\ dataAlloc[l] = "freed"

\* A listener that received an event was dropped and its allocations released.
C3_Witness ==
    \E l \in ListenerIds :
        lstate[l] = "dropped" /\ emitted[l].info + emitted[l].param >= 1 /\ dataAlloc[l] = "freed"

\* C4: a returned handle stands for one native registration, and for one native
\* unregistration made by its drop: none before the drop, one from the drop's
\* body on, never a second one.
C4_OneRegistrationOneUnregistration ==
    /\ \A s \in SourceIds :
          /\ HasSource(s) => nAddSignal[s] = 1
          /\ nDestroy[s] = IF hstate[s] \in {"in_drop", "dropped"} THEN 1 ELSE 0
    /\ \A l \in ListenerIds :
          /\ HasListener(l) => nAddListener[l] = 1
          /\ ~HasListener(l) => nAddListener[l] = 0
          /\ nRemove[l] = IF lstate[l] \in {"removed", "dropped"} THEN 1 ELSE 0

\* A source handle was registered and dropped.
C4_Witness ==
    \E s \in SourceIds : hstate[s] = "dropped" /\ nAddSignal[s] = 1 /\ nDestroy[s] = 1

\* The closure a source was registered with ran once per trigger, no other ran.
CallsMatchTriggers(s) ==
    calls[s] = [c \in Closures |-> IF c = srcBox[s].closure THEN triggers[s] ELSE 0]

\* C5: N triggers of a registered source are N calls of the closure it was
\* registered with, and once the handle is dropped no closure is called for it.
C5_OneCallPerTrigger ==
    /\ [](\A s \in SourceIds : HasSource(s) => CallsMatchTriggers(s))
    /\ [][\A s \in SourceIds : hstate[s] = "dropped" => calls'[s] = calls[s]]_vars

\* Two triggers were delivered to a source whose handle was then dropped.
C5_Witness ==
    \E s \in SourceIds : hstate[s] = "dropped" /\ triggers[s] = 2

\* Calls made through listener l's box to closures of one kind.
KindCalls(l, k) == lcalls[l][k]["f"] + lcalls[l][k]["g"]

\* C6: after register a slot is set iff a closure of its kind was configured;
\* events of a kind that was not configured call nothing, and events of a
\* configured kind call a closure of that kind once each.
C6_SelectiveDispatch ==
    \A l \in ListenerIds : HasListener(l) =>
        \A k \in Kinds :
            /\ events[l].slots[k] <=> lastSet[l][k] # None
            /\ KindCalls(l, k) = IF lastSet[l][k] # None THEN emitted[l][k] ELSE 0

\* Both kinds configured, one event of each delivered, each closure called once.
C6_Witness ==
    \E l \in ListenerIds :
        /\ lastSet[l].info # None /\ lastSet[l].param # None
        /\ emitted[l].info = 1 /\ emitted[l].param = 1
        /\ KindCalls(l, "info") = 1 /\ KindCalls(l, "param") = 1

\* C7: the builder holds, and the registered listener calls, only the closure
\* last given for each kind; giving one kind leaves the other kind's as it was.
C7_LastClosureWins ==
    \A l \in ListenerIds : \A k \in Kinds :
        /\ lstate[l] # "none" => cbs[l][k] = lastSet[l][k]
        /\ \A c \in Closures : c # lastSet[l][k] => lcalls[l][k][c] = 0
        /\ HasListener(l) /\ lastSet[l][k] # None =>
              lcalls[l][k][lastSet[l][k]] = emitted[l][k]

\* info() was given g after f, and an info event then called g.
C7_Witness ==
    \E l \in ListenerIds :
        /\ overwrote[l].info /\ lastSet[l].info = "g"
        /\ emitted[l].info >= 1 /\ lcalls[l].info["g"] = emitted[l].info

\* C8: add_signal_local on a thread that does not own the loop takes the fatal
\* path at entry: no add_signal call, no closure box, no source, no handle.
C8_WrongThreadAddSignal ==
    \A s \in SourceIds : attempt[s].thread \notin {"unset", LoopThread} =>
        /\ hstate[s] = "failed_thread"
        /\ nAddSignal[s] = 0
        /\ srcBox[s].alloc = "none"
        /\ s \notin loopSources
        /\ "not_main_thread" \in panics

\* add_signal_local was called on the other thread.
C8_Witness ==
    \E s \in SourceIds : attempt[s].thread = "other" /\ hstate[s] = "failed_thread"

\* C9: register on a thread that does not own the loop takes the fatal path:
\* no add_listener call and no PortListener handle.
C9_WrongThreadRegister ==
    \A l \in ListenerIds : regThread[l] \notin {"unset", LoopThread} =>
        nAddListener[l] = 0 /\ ~HasListener(l)

\* C10: when add_signal yields NULL, add_signal_local fails fatally: no handle,
\* no source, destroy_source never called, the closure box released once.
C10_NullSource ==
    \A s \in SourceIds : (attempt[s].thread = LoopThread /\ ~attempt[s].ok) =>
        /\ hstate[s] = "failed_null"
        /\ "source_is_null" \in panics
        /\ s \notin loopSources
        /\ nDestroy[s] = 0
        /\ srcBox[s].alloc = "freed"
        /\ nBoxFree[s] = 1

\* add_signal yielded NULL for a call made on the loop's thread.
C10_Witness ==
    \E s \in SourceIds : attempt[s].thread = LoopThread /\ ~attempt[s].ok /\ nAddSignal[s] = 1

\* C11: a Source that has not finished dropping has its loop alive; the loop is
\* dropped only after (or with nothing left of) the handles registered on it.
C11_SourceWithinLoop ==
    \A s \in SourceIds : hstate[s] \in {"live", "in_drop"} => loopAlive

\* A source handle was dropped, destroy_source called, and the loop dropped after it.
C11_Witness ==
    \E s \in SourceIds : hstate[s] = "dropped" /\ nDestroy[s] = 1 /\ ~loopAlive

\* C12: a PortListener that has not finished dropping has its Port alive.
C12_ListenerWithinPort ==
    \A l \in ListenerIds : lstate[l] \in {"registered", "removed"} => portAlive

\* C16: the param closure is handed seq, index and next as the proxy passed
\* them, the raw id as a typed kind, and the payload as None when the pointer is
\* null and Some(payload) otherwise; with a param closure configured every
\* param event, null payload or not, calls it once.
C16_ParamArguments ==
    /\ paramCall.got # <<>> =>
          /\ paramCall.got[1] = paramCall.raw[1]
          /\ paramCall.got[2].ParamType = paramCall.raw[2]
          /\ paramCall.got[3] = paramCall.raw[3]
          /\ paramCall.got[4] = paramCall.raw[4]
          /\ paramCall.got[5] =
                IF paramCall.raw[5] = Null THEN <<"None">> ELSE <<"Some", paramCall.raw[5]>>
    /\ (paramCall.l # 0 /\ lastSet[paramCall.l].param # None) => paramCall.got # <<>>
    /\ \A l \in ListenerIds : (HasListener(l) /\ lastSet[l].param # None) =>
          KindCalls(l, "param") = emitted[l].param

\* A param event with a null payload reached the closure as None.
C16_Witness ==
    /\ paramCall.raw # <<>> /\ paramCall.raw[5] = Null
    /\ paramCall.got # <<>> /\ paramCall.got[5] = <<"None">>

\* C19: while a PortListener is registered, a set slot has its closure in the
\* closures box, and no trampoline ever failed to unwrap its closure.
C19_SetSlotHasClosure ==
    /\ \A l \in ListenerIds : \A k \in Kinds :
          (l \in hookList /\ events[l].slots[k]) => (dataAlloc[l] = "live" /\ cbs[l][k] # None)
    /\ "unwrap_none" \notin panics

\* An event was delivered through a set param slot and ran the closure.
C19_Witness ==
    \E l \in ListenerIds :
        /\ l \in hookList /\ events[l].slots.param /\ ~events[l].slots.info
        /\ emitted[l].param >= 1 /\ KindCalls(l, "param") = emitted[l].param

\* C13: pw_port_info_free is called exactly once, on the record the value was
\* constructed from, for a PortInfo that was dropped, and never for one still
\* owned or one given away by into_raw, which returns the pointer the value was
\* constructed from.
C13_FreeOnceUnlessIntoRaw ==
    \A v \in InfoVals :
        /\ pinfo[v].st = "dropped" => pinfo[v].freed = <<pinfo[v].from>>
        /\ pinfo[v].st = "raw" => (pinfo[v].freed = <<>> /\ pinfo[v].out = pinfo[v].from)
        /\ pinfo[v].st \in {"owned", "none", "panicked"} => pinfo[v].freed = <<>>

\* One value was dropped and freed, another was given away by into_raw.
C13_Witness ==
    \E v, w \in InfoVals :
        /\ pinfo[v].st = "dropped" /\ Len(pinfo[v].freed) = 1
        /\ pinfo[w].st = "raw" /\ pinfo[w].out = pinfo[w].from

\* C14: props() is Some iff the props pointer is non-null; params() is empty
\* iff the params pointer is null or n_params is zero, and otherwise is the
\* slice of n_params elements at the params pointer; id() is the id field.
C14_Accessors ==
    view.n = 1 =>
        /\ (view.props[1] = "Some") <=> (view.rec.props # Null)
        /\ (view.params.len = 0) <=> (view.rec.params = Null \/ view.rec.n_params = 0)
        /\ view.params.len # 0 =>
              (view.params.len = view.rec.n_params /\ view.params.ptr = view.rec.params)
        /\ view.id = view.rec.id

\* A record with a null params pointer and a non-zero count was read as empty.
C14_Witness ==
    /\ view.n = 1 /\ view.rec.params = Null /\ view.rec.n_params > 0
    /\ view.params.len = 0 /\ view.props[1] = "None" /\ view.id = 7

\* C15: a named flag is in the decoded change mask iff its bit is set in the
\* raw mask; a raw mask of zero decodes to the empty set, and the raw mask of
\* exactly the PROPS and PARAMS bits to both named flags and nothing else.
C15_ChangeMask ==
    view.n = 1 =>
        /\ Contains(view.change_mask, PW_PORT_CHANGE_MASK_PROPS) <=> (view.rec.change_mask % 2 = 1)
        /\ Contains(view.change_mask, PW_PORT_CHANGE_MASK_PARAMS) <=>
              ((view.rec.change_mask \div 2) % 2 = 1)
        /\ view.rec.change_mask = 0 =>
              (IsEmpty(view.change_mask) /\ \A f \in NamedFlags : ~Contains(view.change_mask, f))
        /\ view.rec.change_mask = PW_PORT_CHANGE_MASK_PROPS + PW_PORT_CHANGE_MASK_PARAMS =>
              /\ \A f \in NamedFlags : Contains(view.change_mask, f)
              /\ view.change_mask.bits = PW_PORT_CHANGE_MASK_PROPS + PW_PORT_CHANGE_MASK_PARAMS

\* A raw mask with the PARAMS bit and without the PROPS bit was decoded.
C15_Witness ==
    /\ view.n = 1 /\ view.rec.change_mask = PW_PORT_CHANGE_MASK_PARAMS
    /\ Contains(view.change_mask, PW_PORT_CHANGE_MASK_PARAMS)
    /\ ~Contains(view.change_mask, PW_PORT_CHANGE_MASK_PROPS)

\* C17: enum_params makes exactly one native enum_params call, with seq, start
\* and num as given, a null filter, and as id the raw value of the given kind
\* or ID_ANY when none is given; it does not fail.
C17_EnumParams ==
    lastOp.op = "enum_params" =>
        /\ Len(callsMade) = 1
        /\ callsMade[1].method = "enum_params"
        /\ callsMade[1].args[1] = lastOp.args[1]
        /\ callsMade[1].args[3] = lastOp.args[3]
        /\ callsMade[1].args[4] = lastOp.args[4]
        /\ callsMade[1].args[5] = Null
        /\ callsMade[1].args[2] =
              IF lastOp.args[2] = <<"None">> THEN <<Half - 1, Half - 1>>
              ELSE lastOp.args[2][2].ParamType
        /\ ~lastOp.failed

\* enum_params was called without a kind and asked for ID_ANY.
C17_Witness ==
    /\ lastOp.op = "enum_params" /\ lastOp.args[2] = <<"None">>
    /\ Len(callsMade) = 1 /\ callsMade[1].args[2] = ID_ANY

\* C18: subscribe_params passes the length of ids as the count when it fits
\* a u32; when it does not, the operation panics and makes no native call.
C18_SubscribeParamsCount ==
    lastOp.op = "subscribe_params" =>
        LET len == lastOp.args[1].len IN
        IF len[1] < Half
          THEN /\ ~lastOp.failed
               /\ Len(callsMade) = 1
               /\ callsMade[1].method = "subscribe_params"
               /\ callsMade[1].args = <<lastOp.args[1].ptr, len>>
          ELSE /\ lastOp.failed
               /\ callsMade = <<>>
               /\ "try_into" \in panics

\* subscribe_params was called with a list one longer than u32::MAX and panicked.
C18_Witness ==
    /\ lastOp.op = "subscribe_params" /\ lastOp.args[1].len = <<Half, 0>>
    /\ lastOp.failed /\ callsMade = <<>>

\* C20: every native method call a Port operation makes is dispatched through
\* pw_port_methods.
C20_PortMethodTable ==
    \A i \in 1..Len(callsMade) : callsMade[i].table = "pw_port_methods"

====
